---- MODULE Spec2Model ----
(***************************************************************************)
(* Model of src/script.js: the click handler of the weather widget.        *)
(*                                                                         *)
(* A click reads the query field, builds the request URL and calls fetch.  *)
(* The promise chain  fetch(url).then(f1).then(f2).catch(f3)  is resumed   *)
(* by the network: when the fetch promise settles, and, on the success     *)
(* path, when the promise of response.json() settles.  The callbacks that  *)
(* a settlement makes runnable are microtasks; they all run in the         *)
(* microtask checkpoint that ends the task of the settlement, before any   *)
(* other task (a click, an edit of the field, another settlement).  So a   *)
(* settlement and the callbacks it releases are one step.                  *)
(*                                                                         *)
(* Strings are TLA+ strings, template literals are concatenations (\o).    *)
(* JavaScript values are tagged records (string, number, undefined) and    *)
(* objects are records of their properties.  The output element is the     *)
(* string last assigned to its innerHTML.                                  *)
(***************************************************************************)
EXTENDS Integers, Sequences, FiniteSets, TLC

(***************************************************************************)
(* Bounds and input sets                                                   *)
(***************************************************************************)
\* clicks in a behaviour of Spec, and in a behaviour of FairSpec
MaxTriggers == 2
MaxFairTriggers == 1

\* what the user can type into the query field (it starts empty)
Cities == {" ", "Paris"}

\* messages of the errors fetch can be rejected with (the second is a
\* failure that happens to carry the text of the handler's own error), and
\* of the errors response.json() can be rejected with
FetchFailures == {"Failed to fetch", "City not found"}
ParseFailures == {"Unexpected end of JSON input"}

(***************************************************************************)
(* JavaScript values                                                       *)
(***************************************************************************)
Undefined == [t |-> "undefined"]
Str(s) == [t |-> "string", s |-> s]
Num(n) == [t |-> "number", n |-> n]

IsPrimitive(v) == "t" \in DOMAIN v
IsObject(v) == ~IsPrimitive(v)

\* v.p for a value v that is not undefined: a missing property, and any
\* property of a string or number, reads as undefined
Get(v, p) == IF IsObject(v) /\ p \in DOMAIN v THEN v[p] ELSE Undefined

\* the string a template literal substitutes for ${v}
JSString(v) ==
    IF IsObject(v) THEN "[object Object]"
    ELSE CASE v.t = "string" -> v.s
           [] v.t = "number" -> ToString(v.n)
           [] v.t = "undefined" -> "undefined"

\* message of the TypeError of reading property p of undefined
TypeErrorMessage(p) ==
    "Cannot read properties of undefined (reading '" \o p \o "')"

(***************************************************************************)
(* Response bodies, as what response.json() makes of them                  *)
(***************************************************************************)
ParisData ==
    [location |-> [name |-> Str("Paris"), country |-> Str("France")],
     current |-> [temp_c |-> Num(18), condition |-> [text |-> Str("Clear")]]]
OsloData ==
    [location |-> [name |-> Str("Oslo"), country |-> Str("Norway")],
     current |-> [temp_c |-> Num(-3), condition |-> [text |-> Str("Snow")]]]
NoLocationData ==
    [current |-> [temp_c |-> Num(18), condition |-> [text |-> Str("Clear")]]]
NoCurrentData ==
    [location |-> [name |-> Str("Paris"), country |-> Str("France")]]
NoConditionData ==
    [location |-> [name |-> Str("Paris"), country |-> Str("France")],
     current |-> [temp_c |-> Num(18)]]

\* a body lacking both current.condition and location
BareData == [current |-> [temp_c |-> Num(18)]]

Datas ==
    {ParisData, OsloData, NoLocationData, NoCurrentData, NoConditionData,
     BareData}

Bodies == [json : {TRUE}, data : Datas]
              \cup [json : {FALSE}, message : ParseFailures]

\* the bodies that come with an error status: one that would parse to a
\* full reading, one that would not parse
ErrorBodies == [json : {TRUE}, data : {ParisData}]
                   \cup [json : {FALSE}, message : ParseFailures]

Responses == [status : {200}, body : Bodies]
                 \cup [status : {400, 500}, body : ErrorBodies]

(***************************************************************************)
(* The handler's code                                                      *)
(***************************************************************************)
apiKey == "141623457ed8473b88b145446242110"

\* variant of Url that trims a blank query
Url_Trimmed(city) ==
    "https://api.weatherapi.com/v1/current.json?key=" \o apiKey
        \o "&q=" \o (IF city = " " THEN "" ELSE city) \o "&aqi=no"

\* line 4
Url(city) ==
    "https://api.weatherapi.com/v1/current.json?key=" \o apiKey
        \o "&q=" \o city \o "&aqi=no"

\* variant of FetchCalls that issues the request twice
FetchCalls_Twice(url) == <<url, url>>

\* the calls of fetch one run of the click handler makes (line 6)
FetchCalls(url) == <<url>>

\* variant of Ok that takes server errors for successes
Ok_BelowServerError(response) == response.status < 500

\* response.ok
Ok(response) == response.status \in 200..299

\* lines 7-12: the first then callback
Then1(response) ==
    IF ~Ok(response)
    THEN [kind |-> "throw", message |-> "City not found"]
    ELSE [kind |-> "await"]

\* variant of SuccessFragment with the two paragraphs' values exchanged
SuccessFragment_Exchanged(name, country, temperature, weatherDescription) ==
    "\n                <h2>Weather in " \o JSString(name) \o ", "
        \o JSString(country) \o "</h2>"
        \o "\n                <p>Temperature: "
        \o JSString(weatherDescription) \o " °C</p>"
        \o "\n                <p>Description: "
        \o JSString(temperature) \o "</p>"
        \o "\n            "

\* lines 16-20
SuccessFragment(name, country, temperature, weatherDescription) ==
    "\n                <h2>Weather in " \o JSString(name) \o ", "
        \o JSString(country) \o "</h2>"
        \o "\n                <p>Temperature: " \o JSString(temperature)
        \o " °C</p>"
        \o "\n                <p>Description: "
        \o JSString(weatherDescription) \o "</p>"
        \o "\n            "

\* line 24
ErrorFragment(message) == "<p style=\"color: red;\">" \o message \o "</p>"

\* variant of Then2 whose reads tolerate a missing object (?.)
Then2_Lenient(data) ==
    LET current == Get(data, "current")
        condition == Get(current, "condition")
        location == Get(data, "location")
    IN  [kind |-> "write",
         html |-> SuccessFragment(Get(location, "name"),
                                  Get(location, "country"),
                                  Get(current, "temp_c"),
                                  Get(condition, "text"))]

\* lines 13-22: the second then callback, up to its assignment
Then2(data) ==
    LET current == Get(data, "current")
        condition == Get(current, "condition")
        location == Get(data, "location")
    IN  IF data = Undefined
        THEN [kind |-> "throw", message |-> TypeErrorMessage("current")]
        ELSE IF current = Undefined
        THEN [kind |-> "throw", message |-> TypeErrorMessage("condition")]
        ELSE IF condition = Undefined
        THEN [kind |-> "throw", message |-> TypeErrorMessage("text")]
        ELSE IF location = Undefined
        THEN [kind |-> "throw", message |-> TypeErrorMessage("name")]
        ELSE [kind |-> "write",
              html |-> SuccessFragment(Get(location, "name"),
                                       Get(location, "country"),
                                       Get(current, "temp_c"),
                                       Get(condition, "text"))]

\* variant of Catch that shows the fixed text for every failure
Catch_FixedText(message) ==
    [kind |-> "write", html |-> ErrorFragment("City not found")]

\* variant of Catch that rethrows instead of rendering
Catch_Rethrow(message) == [kind |-> "throw", message |-> message]

\* lines 23-25: the catch callback
Catch(message) == [kind |-> "write", html |-> ErrorFragment(message)]

\* variant of SetInnerHTML that appends (innerHTML += html)
SetInnerHTML_Append(old, html) == old \o html

\* variant of SetInnerHTML that keeps the first result
SetInnerHTML_KeepFirst(old, html) == IF old = "" THEN html ELSE old

\* element.innerHTML = html (lines 21 and 24)
SetInnerHTML(old, html) == html

(***************************************************************************)
(* What a settlement runs: the callbacks of the chain, in order.  A run is *)
(* the sequence of strings assigned to innerHTML and the state in which    *)
(* the promise returned by catch ends.                                     *)
(***************************************************************************)
\* the chain is rejected with an error carrying message: catch runs
RunCatch(message) ==
    LET c == Catch(message)
    IN  IF c.kind = "write"
        THEN [writes |-> <<c.html>>, state |-> "fulfilled"]
        ELSE [writes |-> <<>>, state |-> "rejected"]

\* the fetch promise is fulfilled with response: the first then runs
RunThen1(response) ==
    LET t == Then1(response)
    IN  IF t.kind = "throw"
        THEN RunCatch(t.message)
        ELSE [writes |-> <<>>, state |-> "parsing"]

\* variant of RunThen2 for a chain whose catch precedes the second then
RunThen2_Uncaught(data) ==
    LET t == Then2(data)
    IN  IF t.kind = "write"
        THEN [writes |-> <<t.html>>, state |-> "fulfilled"]
        ELSE [writes |-> <<>>, state |-> "rejected"]

\* response.json() is fulfilled with data: the second then runs, and catch
\* if it throws
RunThen2(data) ==
    LET t == Then2(data)
    IN  IF t.kind = "write"
        THEN [writes |-> <<t.html>>, state |-> "fulfilled"]
        ELSE RunCatch(t.message)

\* the successive contents of an element that holds old and is assigned
\* the strings of writes
RECURSIVE Contents(_, _)
Contents(old, writes) ==
    IF writes = <<>> THEN <<>>
    ELSE LET new == SetInnerHTML(old, Head(writes))
         IN  <<new>> \o Contents(new, Tail(writes))

Last(seq) == seq[Len(seq)]

(***************************************************************************)
(* State                                                                   *)
(***************************************************************************)
\* cityField      value of the input element 'city'
\* weatherResult  innerHTML of the element 'weatherResult'
\* requests       one entry per run of the click handler: its closure
\*                (city, url), the state of its promise chain (pc) and
\*                the response whose body is being read
\* sent           the URLs passed to fetch, in order
\* log            history, per request: the field value at its trigger,
\*                what the network delivered to it, and the contents the
\*                output element took at its writes
\* lastSettled    history: the request that settled latest, 0 if none
VARIABLES cityField, weatherResult, requests, sent, log, lastSettled

vars == <<cityField, weatherResult, requests, sent, log, lastSettled>>

InitialContent == ""

NoOutcome == [kind |-> "none"]

Init ==
    /\ cityField = ""
    /\ weatherResult = InitialContent
    /\ requests = <<>>
    /\ sent = <<>>
    /\ log = <<>>
    /\ lastSettled = 0

(***************************************************************************)
(* Actions                                                                 *)
(***************************************************************************)
\* the user edits the query field
SetCity(c) ==
    /\ c # cityField
    /\ cityField' = c
    /\ UNCHANGED <<weatherResult, requests, sent, log, lastSettled>>

\* variant of Click that abandons the requests still outstanding
Click_Cancelling(limit) ==
    /\ Len(requests) < limit
    /\ LET city == cityField
           url == Url(city)
       IN  /\ requests' = Append(
                  [q \in DOMAIN requests |->
                       IF requests[q].pc \in {"fetching", "parsing"}
                       THEN [requests[q] EXCEPT !.pc = "cancelled",
                                                !.value = Undefined]
                       ELSE requests[q]],
                  [city |-> city, url |-> url, pc |-> "fetching",
                   value |-> Undefined])
           /\ sent' = sent \o <<url>>
    /\ log' = Append(log, [trigger |-> cityField, outcome |-> NoOutcome,
                           wrote |-> <<>>])
    /\ UNCHANGED <<cityField, weatherResult, lastSettled>>

\* variant of Click that marks the output as loading
Click_Loading(limit) ==
    /\ Len(requests) < limit
    /\ LET city == cityField
           url == Url(city)
       IN  /\ requests' = Append(requests,
                  [city |-> city, url |-> url, pc |-> "fetching",
                   value |-> Undefined])
           /\ sent' = sent \o <<url>>
    /\ log' = Append(log, [trigger |-> cityField, outcome |-> NoOutcome,
                           wrote |-> <<>>])
    /\ weatherResult' = "<p>Loading...</p>"
    /\ UNCHANGED <<cityField, lastSettled>>

\* lines 1-6 and the registration of the callbacks: the synchronous part of
\* the click handler (limit bounds the clicks of a behaviour)
Click(limit) ==
    /\ Len(requests) < limit
    /\ LET city == cityField
           url == Url(city)
       IN  /\ requests' = Append(requests,
                  [city |-> city, url |-> url, pc |-> "fetching",
                   value |-> Undefined])
           /\ sent' = sent \o FetchCalls(url)
    /\ log' = Append(log, [trigger |-> cityField, outcome |-> NoOutcome,
                           wrote |-> <<>>])
    /\ UNCHANGED <<cityField, weatherResult, lastSettled>>

\* a settlement of request r, delivering outcome, resumes its chain with run
Resume(r, run, outcome) ==
    LET contents == Contents(weatherResult, run.writes)
    IN  /\ requests' =
               [requests EXCEPT ![r].pc = run.state,
                                ![r].value = IF run.state = "parsing"
                                             THEN outcome.response
                                             ELSE Undefined]
        /\ weatherResult' = IF contents = <<>> THEN weatherResult
                            ELSE Last(contents)
        /\ log' = [log EXCEPT ![r].outcome = outcome,
                              ![r].wrote = @ \o contents]
        /\ lastSettled' = IF run.state = "parsing" THEN lastSettled ELSE r
        /\ UNCHANGED <<cityField, sent>>

\* the fetch promise of request r is fulfilled with response: the first then
\* runs, and either throws (catch runs) or awaits response.json()
FetchResolve(r, response) ==
    /\ requests[r].pc = "fetching"
    /\ Resume(r, RunThen1(response),
              [kind |-> "response", response |-> response, json |-> "unread"])

\* the fetch promise of request r is rejected: both then callbacks are
\* skipped, catch runs
FetchReject(r, message) ==
    /\ requests[r].pc = "fetching"
    /\ Resume(r, RunCatch(message),
              [kind |-> "failure", message |-> message])

\* the promise of response.json() of request r is fulfilled
JsonResolve(r) ==
    /\ requests[r].pc = "parsing"
    /\ requests[r].value.body.json
    /\ Resume(r, RunThen2(requests[r].value.body.data),
              [kind |-> "response", response |-> requests[r].value,
               json |-> "fulfilled"])

\* the promise of response.json() of request r is rejected
JsonReject(r) ==
    /\ requests[r].pc = "parsing"
    /\ ~requests[r].value.body.json
    /\ Resume(r, RunCatch(requests[r].value.body.message),
              [kind |-> "response", response |-> requests[r].value,
               json |-> "rejected"])

\* the network settles a promise request r awaits
Settle(r) ==
    /\ r \in DOMAIN requests
    /\ \/ \E response \in Responses : FetchResolve(r, response)
       \/ \E message \in FetchFailures : FetchReject(r, message)
       \/ JsonResolve(r)
       \/ JsonReject(r)

Next ==
    \/ \E c \in Cities \cup {""} : SetCity(c)
    \/ Click(MaxTriggers)
    \/ \E r \in DOMAIN requests, response \in Responses :
           FetchResolve(r, response)
    \/ \E r \in DOMAIN requests, message \in FetchFailures :
           FetchReject(r, message)
    \/ \E r \in DOMAIN requests : JsonResolve(r)
    \/ \E r \in DOMAIN requests : JsonReject(r)

Spec == Init /\ [][Next]_vars

(***************************************************************************)
(* Fairness.  The callbacks are part of the settlement steps, so the only  *)
(* scheduling assumption is about the network: FairSpec assumes that every *)
(* issued request settles (its fetch promise, and then the promise of      *)
(* response.json()).                                                       *)
(***************************************************************************)
FairNext ==
    \/ \E c \in Cities \cup {""} : SetCity(c)
    \/ Click(MaxFairTriggers)
    \/ \E r \in DOMAIN requests, response \in Responses :
           FetchResolve(r, response)
    \/ \E r \in DOMAIN requests, message \in FetchFailures :
           FetchReject(r, message)
    \/ \E r \in DOMAIN requests : JsonResolve(r)
    \/ \E r \in DOMAIN requests : JsonReject(r)

FairSpec ==
    /\ Init /\ [][FairNext]_vars
    /\ \A r \in 1..MaxFairTriggers : WF_vars(Settle(r))

(***************************************************************************)
(* Vocabulary of the properties                                            *)
(***************************************************************************)
Triggered(r) == r \in DOMAIN requests
Awaiting(r) == Triggered(r) /\ requests[r].pc \in {"fetching", "parsing"}
Settled(r) == Triggered(r) /\ requests[r].pc \in {"fulfilled", "rejected"}
Outcome(r) == log[r].outcome
Wrote(r) == log[r].wrote

\* the fetch promise of r was fulfilled with a response of success status,
\* or of another status
GotSuccessStatus(r) ==
    /\ Outcome(r).kind = "response"
    /\ Outcome(r).response.status \in 200..299
GotErrorStatus(r) ==
    /\ Outcome(r).kind = "response"
    /\ Outcome(r).response.status \notin 200..299

ErrorText(message) == "<p style=\"color: red;\">" \o message \o "</p>"

\* a parsed body holding location.name, location.country, current.temp_c
\* and current.condition.text
FullReading(data) ==
    /\ {"location", "current"} \subseteq DOMAIN data
    /\ {"name", "country"} \subseteq DOMAIN data.location
    /\ {"temp_c", "condition"} \subseteq DOMAIN data.current
    /\ "text" \in DOMAIN data.current.condition

\* the text of a value of a reading
Text(v) == IF v.t = "number" THEN ToString(v.n) ELSE v.s

StartsWith(s, prefix) ==
    Len(s) >= Len(prefix) /\ SubSeq(s, 1, Len(prefix)) = prefix
EndsWith(s, suffix) ==
    Len(s) >= Len(suffix)
        /\ SubSeq(s, Len(s) - Len(suffix) + 1, Len(s)) = suffix

\* the two shapes of fragment: one red paragraph; a heading and two
\* paragraphs
ErrorShape(s) ==
    /\ StartsWith(s, "<p style=\"color: red;\">")
    /\ EndsWith(s, "</p>")
SuccessShape(s) ==
    /\ StartsWith(s, "\n                <h2>Weather in ")
    /\ EndsWith(s, "</p>\n            ")

\* the property of undefined whose read fails when the second callback
\* runs on a body that is not a full reading
FailingRead(data) ==
    IF "current" \notin DOMAIN data THEN "condition"
    ELSE IF "condition" \notin DOMAIN data.current THEN "text"
    ELSE "name"

\* the fragment a request is to render, as a function of what the network
\* delivered to it and of nothing else
Rendering(outcome) ==
    IF outcome.kind = "failure" THEN ErrorText(outcome.message)
    ELSE IF outcome.response.status \notin 200..299
    THEN ErrorText("City not found")
    ELSE IF ~outcome.response.body.json
    THEN ErrorText(outcome.response.body.message)
    ELSE LET data == outcome.response.body.data
         IN  IF FullReading(data)
             THEN "\n                <h2>Weather in "
                  \o Text(data.location.name) \o ", "
                  \o Text(data.location.country) \o "</h2>"
                  \o "\n                <p>Temperature: "
                  \o Text(data.current.temp_c) \o " °C</p>"
                  \o "\n                <p>Description: "
                  \o Text(data.current.condition.text) \o "</p>"
                  \o "\n            "
             ELSE ErrorText("Cannot read properties of undefined (reading '"
                            \o FailingRead(data) \o "')")

(***************************************************************************)
(* Properties                                                              *)
(***************************************************************************)
\* C1: a request whose fetch is fulfilled with a response of non-success
\* status, whatever the status, the body and the query, is settled by that
\* step, has written the output exactly once, with the error fragment of
\* the text "City not found", and its body was never read
C1_ErrorStatusRendersCityNotFound ==
    \A r \in DOMAIN requests :
        GotErrorStatus(r) =>
            /\ Settled(r)
            /\ Wrote(r) = <<"<p style=\"color: red;\">City not found</p>">>
            /\ Outcome(r).json = "unread"

\* both error statuses, with a body that parses and one that does not, and
\* different queries, have been rendered
C1_Witness ==
    \E r, q \in DOMAIN requests :
        /\ GotErrorStatus(r) /\ GotErrorStatus(q)
        /\ Outcome(r).response.status # Outcome(q).response.status
        /\ Outcome(r).response.body.json /\ ~Outcome(q).response.body.json
        /\ requests[r].city # requests[q].city
        /\ weatherResult = "<p style=\"color: red;\">City not found</p>"

\* C2: a request of success status whose body parsed to a full reading has
\* written the output exactly once, with the success fragment made of the
\* four values of its own response: heading "Weather in {name}, {country}",
\* then "Temperature: {temp_c} °C", then "Description: {condition text}"
C2_SuccessRendersReading ==
    \A r \in DOMAIN requests :
        (/\ GotSuccessStatus(r)
         /\ Outcome(r).json = "fulfilled"
         /\ FullReading(Outcome(r).response.body.data)) =>
            LET data == Outcome(r).response.body.data
            IN  Wrote(r) =
                    << "\n                <h2>Weather in "
                       \o Text(data.location.name) \o ", "
                       \o Text(data.location.country) \o "</h2>"
                       \o "\n                <p>Temperature: "
                       \o Text(data.current.temp_c) \o " °C</p>"
                       \o "\n                <p>Description: "
                       \o Text(data.current.condition.text) \o "</p>"
                       \o "\n            " >>

\* the two full readings have been rendered, the one with the negative
\* temperature last
C2_Witness ==
    \E r, q \in DOMAIN requests :
        /\ GotSuccessStatus(r) /\ Outcome(r).json = "fulfilled"
        /\ Outcome(r).response.body.data = ParisData
        /\ GotSuccessStatus(q) /\ Outcome(q).json = "fulfilled"
        /\ Outcome(q).response.body.data = OsloData
        /\ lastSettled = q
        /\ weatherResult = Last(Wrote(q))
        /\ SuccessShape(weatherResult)

\* C3: a request whose fetch is rejected, or whose body of a success-status
\* response fails to parse, has written the output exactly once, with the
\* error fragment whose text is the message of that failure; the text is
\* "City not found" only if that is the failure's message
C3_FailureRendersItsMessage ==
    \A r \in DOMAIN requests :
        LET failed ==
                \/ Outcome(r).kind = "failure"
                \/ GotSuccessStatus(r) /\ Outcome(r).json = "rejected"
            message ==
                IF Outcome(r).kind = "failure" THEN Outcome(r).message
                ELSE Outcome(r).response.body.message
        IN  failed =>
                /\ Wrote(r) = <<ErrorText(message)>>
                /\ (Wrote(r) = <<ErrorText("City not found")>>
                        => message = "City not found")

\* a transport failure and a parse failure have been rendered
C3_Witness ==
    \E r, q \in DOMAIN requests :
        /\ Outcome(r).kind = "failure"
        /\ Outcome(r).message = "Failed to fetch"
        /\ GotSuccessStatus(q) /\ Outcome(q).json = "rejected"
        /\ Wrote(q) = <<ErrorText("Unexpected end of JSON input")>>
        /\ weatherResult = ErrorText("Failed to fetch")

\* C4: a request writes nothing before it settles, and a settled request
\* has written the output exactly once, with a fragment of exactly one of
\* the two shapes; its chain ended fulfilled, never rejected
C4_OneWritePerSettledRequest ==
    \A r \in DOMAIN requests :
        /\ requests[r].pc \in {"fetching", "parsing", "fulfilled"}
        /\ Awaiting(r) => Wrote(r) = <<>>
        /\ Settled(r) =>
               /\ Len(Wrote(r)) = 1
               /\ ErrorShape(Wrote(r)[1]) # SuccessShape(Wrote(r)[1])

\* a request ended with a success fragment and one with the error fragment
\* of a failure inside the second callback
C4_Witness ==
    \E r, q \in DOMAIN requests :
        /\ Settled(r) /\ SuccessShape(Wrote(r)[1])
        /\ Settled(q) /\ GotSuccessStatus(q)
        /\ Outcome(q).json = "fulfilled"
        /\ ErrorShape(Wrote(q)[1])

\* C5: the output holds its initial content or exactly one fragment, the
\* fragment of one settled request; never two fragments
C5_OutputIsOneFragment ==
    \/ weatherResult = InitialContent
    \/ \E r \in DOMAIN requests :
           Settled(r) /\ weatherResult = Rendering(Outcome(r))

\* two overlapping requests have both written, a success fragment over an
\* error fragment
C5_Witness ==
    /\ Len(requests) >= 2
    /\ Awaiting(1) = FALSE /\ Awaiting(2) = FALSE
    /\ ErrorShape(Wrote(1)[1])
    /\ lastSettled = 2
    /\ SuccessShape(weatherResult)

\* C6: once all the requests have settled, the output shows the fragment of
\* the request that settled last, whichever was triggered last
C6_LastSettledWins ==
    (requests # <<>> /\ \A r \in DOMAIN requests : Settled(r)) =>
        /\ lastSettled \in DOMAIN requests
        /\ weatherResult = Rendering(Outcome(lastSettled))

\* request 1 is triggered before request 2, 2 settles first, 1 afterwards,
\* and the output shows the result of 1, which is not the result of 2
C6_Witness ==
    /\ Len(requests) = 2
    /\ Settled(1) /\ Settled(2)
    /\ lastSettled = 1
    /\ weatherResult = Rendering(Outcome(1))
    /\ weatherResult # Rendering(Outcome(2))

\* C7: a trigger appends a new request, awaiting its fetch, and leaves the
\* earlier ones untouched; a step changes at most one request, never one
\* that has settled; and what a settled request wrote is the one fragment
\* its own outcome determines
C7_RequestsAreIndependent ==
    [][/\ Len(requests') >= Len(requests)
       /\ Len(requests') > Len(requests) =>
              /\ Len(requests') = Len(requests) + 1
              /\ requests'[Len(requests')].pc = "fetching"
              /\ \A q \in DOMAIN requests :
                     requests'[q] = requests[q] /\ log'[q] = log[q]
       /\ \A q \in DOMAIN requests :
              Settled(q) => requests'[q] = requests[q] /\ log'[q] = log[q]
       /\ \A q1, q2 \in DOMAIN requests :
              (/\ <<requests'[q1], log'[q1]>> # <<requests[q1], log[q1]>>
               /\ <<requests'[q2], log'[q2]>> # <<requests[q2], log[q2]>>)
                  => q1 = q2
       /\ \A q \in DOMAIN requests' :
              requests'[q].pc \in {"fulfilled", "rejected"} =>
                  log'[q].wrote = <<Rendering(log'[q].outcome)>>
      ]_vars

\* the second request was triggered while the first was outstanding, with
\* another query, and both have rendered, the first one last
C7_Witness ==
    /\ Len(requests) = 2
    /\ Settled(1) /\ Settled(2)
    /\ requests[1].city # requests[2].city
    /\ Outcome(1) # Outcome(2)
    /\ lastSettled = 1
    /\ Wrote(1) = <<weatherResult>>

\* C8: if every issued request settles, every trigger is eventually
\* followed by the single write of its request; as long as a request is
\* awaiting it has written nothing, and only a settlement by the network
\* changes an awaiting request, what it has written or the output
C8_SettledRequestsWrite ==
    /\ \A r \in 1..MaxFairTriggers :
           Triggered(r) ~> (Settled(r) /\ Len(Wrote(r)) = 1
                                /\ Wrote(r) = <<Rendering(Outcome(r))>>)
    /\ [](\A r \in DOMAIN requests : Awaiting(r) => Wrote(r) = <<>>)
    /\ [][\A r \in DOMAIN requests :
              (Awaiting(r)
                  /\ <<requests[r], log[r]>>' # <<requests[r], log[r]>>)
                  => Settle(r)]_vars
    /\ [][weatherResult' # weatherResult =>
              \E r \in DOMAIN requests : Awaiting(r) /\ Settle(r)]_vars

\* a request is still awaiting its fetch after the field was edited, the
\* output unchanged
C8_Witness ==
    \E r \in DOMAIN requests :
        /\ requests[r].pc = "fetching"
        /\ cityField # requests[r].city
        /\ weatherResult = InitialContent

\* C9: the number of requests issued equals the number of triggers, in
\* every state, whatever the outcomes: each trigger issued the one request
\* of its chain and no failure issued another
C9_OneRequestPerTrigger ==
    /\ Len(sent) = Len(log)
    /\ Len(sent) = Len(requests)
    /\ \A r \in DOMAIN requests : sent[r] = requests[r].url

\* an error status, a transport failure or a parse failure has been
\* rendered for every trigger
C9_Witness ==
    /\ Len(log) = MaxTriggers
    /\ \A r \in DOMAIN requests : Settled(r) /\ ErrorShape(Wrote(r)[1])
    /\ \E r \in DOMAIN requests : Outcome(r).kind = "failure"
    /\ \E r \in DOMAIN requests : GotErrorStatus(r)

\* C10: every trigger issued a request, whose URL carries the value the
\* query field had at that trigger, unchanged, also when it is empty or
\* blank; an edit of the field changes no request, nothing that was sent,
\* nothing that was or will be written
C10_QueryReadAtTrigger ==
    /\ [](\A r \in DOMAIN log :
              /\ r \in DOMAIN sent /\ r \in DOMAIN requests
              /\ sent[r] = "https://api.weatherapi.com/v1/current.json"
                           \o "?key=141623457ed8473b88b145446242110&q="
                           \o log[r].trigger \o "&aqi=no"
              /\ requests[r].url = sent[r]
              /\ Settled(r) => Wrote(r) = <<Rendering(Outcome(r))>>)
    /\ [][cityField' # cityField =>
              UNCHANGED <<requests, sent, log, weatherResult>>]_vars

\* requests were triggered with the empty and with the blank field, the
\* field was edited while they were in flight, and one has rendered
C10_Witness ==
    /\ Len(requests) = 2
    /\ log[1].trigger = "" /\ log[2].trigger = " "
    /\ cityField = "Paris"
    /\ Settled(1) /\ Awaiting(2)
    /\ weatherResult = Rendering(Outcome(1))

\* C11: a trigger leaves the output as it is, and no request has written by
\* being triggered; the output changes only in the step in which an
\* awaiting request settles, and then to what that request wrote
C11_OnlySettlementsWrite ==
    [][/\ Len(requests') > Len(requests) =>
              /\ weatherResult' = weatherResult
              /\ \A q \in DOMAIN log :
                     q \in DOMAIN log' /\ log'[q].wrote = log[q].wrote
              /\ \A q \in DOMAIN log' \ DOMAIN log : log'[q].wrote = <<>>
       /\ weatherResult' # weatherResult =>
              \E r \in DOMAIN requests :
                  /\ Awaiting(r)
                  /\ requests'[r].pc \in {"fulfilled", "rejected"}
                  /\ log'[r].wrote # <<>>
                  /\ weatherResult' = Last(log'[r].wrote)
      ]_vars

\* while the request of a blank query is awaiting its body, the output
\* still shows the reading rendered for the older query "Paris"
C11_Witness ==
    /\ Len(requests) = 2
    /\ requests[1].city = "Paris" /\ requests[2].city = " "
    /\ Settled(1) /\ requests[2].pc = "parsing"
    /\ SuccessShape(weatherResult)
    /\ weatherResult = Rendering(Outcome(1))

\* a parsed body without the location object, the current object or
\* current.condition
LacksObject(data) ==
    \/ "location" \notin DOMAIN data
    \/ "current" \notin DOMAIN data
    \/ "condition" \notin DOMAIN data.current

\* C12: a request of success status whose body parsed to an object lacking
\* location, current or current.condition has settled with its chain
\* fulfilled and has written exactly once, the error fragment with the
\* message of the failed read (the first read to fail in the order of the
\* code); and no request has written a success fragment unless its body
\* was a full reading
C12_MissingObjectRendersError ==
    \A r \in DOMAIN requests :
        /\ (/\ GotSuccessStatus(r)
            /\ Outcome(r).json = "fulfilled"
            /\ LacksObject(Outcome(r).response.body.data)) =>
               LET data == Outcome(r).response.body.data
                   read == IF "current" \notin DOMAIN data THEN "condition"
                           ELSE IF "condition" \notin DOMAIN data.current
                           THEN "text"
                           ELSE "name"
               IN  /\ requests[r].pc = "fulfilled"
                   /\ Wrote(r) =
                          << "<p style=\"color: red;\">"
                             \o "Cannot read properties of undefined"
                             \o " (reading '" \o read \o "')</p>" >>
                   /\ ~SuccessShape(Wrote(r)[1])
        /\ \A i \in DOMAIN Wrote(r) :
               SuccessShape(Wrote(r)[i]) =>
                   /\ GotSuccessStatus(r)
                   /\ Outcome(r).json = "fulfilled"
                   /\ FullReading(Outcome(r).response.body.data)

\* a body without location and a body without both current.condition and
\* location have been rendered, as the failures of reading 'name' and 'text'
C12_Witness ==
    /\ Len(requests) = 2
    /\ Settled(1) /\ Settled(2)
    /\ Outcome(1).kind = "response" /\ Outcome(2).kind = "response"
    /\ Outcome(1).response.body = [json |-> TRUE, data |-> NoLocationData]
    /\ Outcome(2).response.body = [json |-> TRUE, data |-> BareData]
    /\ Wrote(1) = <<ErrorText(TypeErrorMessage("name"))>>
    /\ weatherResult = ErrorText(TypeErrorMessage("text"))

====
